---- MODULE Spec2Model ----
(***************************************************************************)
(* Gen-Blender Pro: the App component (scene state, conversation, busy     *)
(* flag), the Terminal's submission handler, the generation service's      *)
(* ingestion of a response, and the OBJ export of the scene graph.         *)
(*                                                                         *)
(* Numbers.  Positions and scales are integers; a rotation component k     *)
(* stands for the angle k * pi/2, so cos and sin are exact (Cos, Sin).     *)
(* A local corner times scale times 0.5 is a multiple of 1/2; coordinates  *)
(* are carried in half units until toFixed(4) prints them, as an integer   *)
(* number of ten-thousandths (ToFixed4).                                   *)
(* Strings that the code takes apart (a color, a response text) are        *)
(* sequences of characters; the others are TLA+ strings.                   *)
(***************************************************************************)
EXTENDS Integers, Sequences, FiniteSets, TLC

\* ------------------------------------------------------------------ bounds
MaxNodes == 2        \* nodes in one generated response
MaxSceneLen == 3     \* nodes in a scene of the export specification
MaxRequests == 2     \* submissions accepted in one behaviour
MaxPending == 1      \* archives whose encoding is outstanding at one time
MaxTextLen == 2      \* characters of a response text that is not the text of a payload
MaxWrappedLen == 2   \* characters before, and after, the payload of a response text

\* the value of an absent optional (targetGroup, attachment, aiReasoning)
Undefined == "<undefined>"

\* ------------------------------------------------------------------ types
GeometryType ==
    { "box", "sphere", "cylinder", "cone", "torus",
      "icosahedron", "dodecahedron", "tetrahedron",
      "extrusion", "wedge", "plane",
      "wall", "roof", "floor", "window", "pillar", "stairs",
      "tree_complex" }

Environments == { "sunset", "dawn", "night", "warehouse", "forest", "studio", "city" }

\* JS truthiness of an optional string: undefined and "" are falsy.
Truthy(s) == s # Undefined /\ s # ""

\* ------------------------------------------------------------------ export
\* (mutant) the group taken as it is, without the 'Ungrouped' default
NormalizedGroupRaw(node) == node.group

\* node.group || 'Ungrouped'; the group of a node without one is undefined
NormalizedGroup(node) ==
    IF "group" \in DOMAIN node /\ Truthy(node.group) THEN node.group ELSE "Ungrouped"

\* (mutant) a filter on the raw group, without the 'Ungrouped' default
RECURSIVE FilterRawGroup(_, _, _)
FilterRawGroup(nodes, targetGroup, i) ==
    IF i > Len(nodes) THEN << >>
    ELSE IF nodes[i].group = targetGroup
         THEN << nodes[i] >> \o FilterRawGroup(nodes, targetGroup, i + 1)
         ELSE FilterRawGroup(nodes, targetGroup, i + 1)

\* Array.prototype.filter
RECURSIVE Filter(_, _, _)
Filter(nodes, targetGroup, i) ==
    IF i > Len(nodes) THEN << >>
    ELSE IF NormalizedGroup(nodes[i]) = targetGroup
         THEN << nodes[i] >> \o Filter(nodes, targetGroup, i + 1)
         ELSE Filter(nodes, targetGroup, i + 1)

nodesToExport(nodes, targetGroup) ==
    IF Truthy(targetGroup) THEN Filter(nodes, targetGroup, 1) ELSE nodes

\* The canonical names of the array indices 0, 1, ...: an own property with
\* such a name is listed by Object.keys before every other one, in ascending
\* numeric order. ArrayIndexNames[k + 1] is the name of k; group names that
\* are larger integers are outside the model.
ArrayIndexNames ==
    << "0", "1", "2", "3", "4", "5", "6", "7", "8", "9", "10", "11", "12", "13", "14",
       "15", "16", "17", "18", "19", "20" >>

IsArrayIndex(name) == \E k \in DOMAIN ArrayIndexNames : ArrayIndexNames[k] = name

ArrayIndex(name) == ( CHOOSE k \in DOMAIN ArrayIndexNames : ArrayIndexNames[k] = name ) - 1

\* The property names an object literal inherits from Object.prototype: for
\* each of them {}[name] is truthy and has no push method.
PrototypeKeys ==
    { "constructor", "__proto__", "hasOwnProperty", "isPrototypeOf",
      "propertyIsEnumerable", "toLocaleString", "toString", "valueOf",
      "__defineGetter__", "__defineSetter__", "__lookupGetter__", "__lookupSetter__" }

\* Object.keys after a new own property is created: array indices first, in
\* ascending order, then the other names in the order of their creation.
InsertKey(keys, name) ==
    IF ~IsArrayIndex(name) THEN Append(keys, name)
    ELSE LET Smaller(k) == IsArrayIndex(k) /\ ArrayIndex(k) < ArrayIndex(name)
         IN SelectSeq(keys, Smaller) \o << name >>
            \o SelectSeq(keys, LAMBDA k : ~Smaller(k))

\* The forEach that fills groupedNodes: a record from group name to node
\* list, and the group names in the order Object.keys lists them. For a group
\* named as a property of Object.prototype the test of line 92 finds the
\* inherited value and push throws: the result then has the field threw.
RECURSIVE GroupNodes(_, _, _)
GroupNodes(nodes, i, acc) ==
    IF i > Len(nodes) \/ "threw" \in DOMAIN acc THEN acc
    ELSE LET groupName == NormalizedGroup(nodes[i])
             known == groupName \in DOMAIN acc.lists
             lists == IF known
                      THEN [acc.lists EXCEPT ![groupName] = Append(@, nodes[i])]
                      ELSE [g \in DOMAIN acc.lists \cup {groupName} |->
                              IF g = groupName THEN << nodes[i] >> ELSE acc.lists[g]]
             keys  == IF known THEN acc.keys ELSE InsertKey(acc.keys, groupName)
         IN IF groupName \in PrototypeKeys
            THEN [ lists |-> acc.lists, keys |-> acc.keys,
                   threw |-> "TypeError: groupedNodes[groupName].push is not a function" ]
            ELSE GroupNodes(nodes, i + 1, [lists |-> lists, keys |-> keys])

groupedNodes(nodes) == GroupNodes(nodes, 1, [lists |-> << >>, keys |-> << >>])

\* String.prototype.replace('#', 'Mat_') on a sequence of characters.
RECURSIVE ReplaceHash(_, _)
ReplaceHash(color, i) ==
    IF i > Len(color) THEN color
    ELSE IF color[i] = "#"
         THEN SubSeq(color, 1, i - 1) \o << "Mat_" >> \o SubSeq(color, i + 1, Len(color))
         ELSE ReplaceHash(color, i + 1)

MaterialId(color) == ReplaceHash(color, 1)

\* cos and sin of k quarter turns
QuarterTurn(k) == k % 4
Cos(k) == << 1, 0, -1, 0 >>[QuarterTurn(k) + 1]
Sin(k) == << 0, 1, 0, -1 >>[QuarterTurn(k) + 1]

CubeCorners ==
    << << -1, -1, 1 >>, << 1, -1, 1 >>, << -1, 1, 1 >>, << 1, 1, 1 >>,
       << -1, -1, -1 >>, << 1, -1, -1 >>, << -1, 1, -1 >>, << 1, 1, -1 >> >>

QuadCorners == << << -1, -1, 0 >>, << 1, -1, 0 >>, << -1, 1, 0 >>, << 1, 1, 0 >> >>

\* (mutant) the window type forgotten
IsQuadTypePlaneOnly(type) == type = "plane"

IsQuadType(type) == type = "plane" \/ type = "window"

LocalVertices(type) == IF IsQuadType(type) THEN QuadCorners ELSE CubeCorners

\* (mutant) the factor 0.5 forgotten
ScaleVertexWithoutHalf(p, scl) == << 2 * p[1] * scl[1], 2 * p[2] * scl[2], 2 * p[3] * scl[3] >>

\* p => [p[0]*scl[0]*0.5, ...], in half units
ScaleVertex(p, scl) == << p[1] * scl[1], p[2] * scl[2], p[3] * scl[3] >>

\* (mutant) the rotations applied about Z first, then Y, then X
RotateVertexZYX(p, rot) ==
    LET cx == Cos(rot[1])  sx == Sin(rot[1])
        cy == Cos(rot[2])  sy == Sin(rot[2])
        cz == Cos(rot[3])  sz == Sin(rot[3])
        x0 == p[1]  y0 == p[2]  z0 == p[3]
        x1 == x0 * cz - y0 * sz
        y1 == x0 * sz + y0 * cz
        x2 == x1 * cy + z0 * sy
        z1 == (-x1) * sy + z0 * cy
        y2 == y1 * cx - z1 * sx
        z2 == y1 * sx + z1 * cx
    IN << x2, y2, z2 >>

\* the three in-place rotations of one vertex
RotateVertex(p, rot) ==
    LET cx == Cos(rot[1])  sx == Sin(rot[1])
        cy == Cos(rot[2])  sy == Sin(rot[2])
        cz == Cos(rot[3])  sz == Sin(rot[3])
        x0 == p[1]  y0 == p[2]  z0 == p[3]
        y1 == y0 * cx - z0 * sx
        z1 == y0 * sx + z0 * cx
        x1 == x0 * cy + z1 * sy
        z2 == (-x0) * sy + z1 * cy
        x2 == x1 * cz - y1 * sz
        y2 == x1 * sz + y1 * cz
    IN << x2, y2, z2 >>

\* p => [p[0] + pos[0], ...]; pos is in whole units, p in half units
TranslateVertex(p, pos) == << p[1] + 2 * pos[1], p[2] + 2 * pos[2], p[3] + 2 * pos[3] >>

TransformVertex(p, node) ==
    TranslateVertex(RotateVertex(ScaleVertex(p, node.scale), node.rotation), node.position)

\* Number.prototype.toFixed(4) of h/2: the printed decimal, in ten-thousandths
ToFixed4(h) == h * 5000

VertexLine(vert) == << "v", ToFixed4(vert[1]), ToFixed4(vert[2]), ToFixed4(vert[3]) >>

FaceLine(f) == << "f", f[1], f[2], f[3], f[4] >>

QuadFaces(o) == << << o, o + 1, o + 3, o + 2 >> >>

\* (mutant) the faces of a cube without the offset of the document
CubeFacesUnshifted(o) ==
    << << 1, 2, 4, 3 >>, << 3, 4, 8, 7 >>, << 7, 8, 6, 5 >>,
       << 5, 6, 2, 1 >>, << 3, 7, 5, 1 >>, << 8, 4, 2, 6 >> >>

CubeFaces(o) ==
    << << o, o + 1, o + 3, o + 2 >>, << o + 2, o + 3, o + 7, o + 6 >>,
       << o + 6, o + 7, o + 5, o + 4 >>, << o + 4, o + 5, o + 1, o + 0 >>,
       << o + 2, o + 6, o + 4, o + 0 >>, << o + 7, o + 3, o + 1, o + 5 >> >>

\* (mutant) the counter advanced by 8 for a quad too
addGeometryAdvancingEight(node, vertexOffset) ==
    LET local == LocalVertices(node.type)
        v     == [i \in 1..Len(local) |-> TransformVertex(local[i], node)]
        o     == vertexOffset
        faces == IF Len(v) = 4 THEN QuadFaces(o) ELSE CubeFaces(o)
    IN [ lines |-> [i \in 1..Len(v) |-> VertexLine(v[i])]
                   \o [i \in 1..Len(faces) |-> FaceLine(faces[i])],
         vertexOffset |-> vertexOffset + 8 ]

\* addGeometry: the lines it appends and the counter it leaves
addGeometry(node, vertexOffset) ==
    LET local == LocalVertices(node.type)
        v     == [i \in 1..Len(local) |-> TransformVertex(local[i], node)]
        o     == vertexOffset
        faces == IF Len(v) = 4 THEN QuadFaces(o) ELSE CubeFaces(o)
    IN [ lines |-> [i \in 1..Len(v) |-> VertexLine(v[i])]
                   \o [i \in 1..Len(faces) |-> FaceLine(faces[i])],
         vertexOffset |-> IF Len(v) = 4 THEN vertexOffset + 4 ELSE vertexOffset + 8 ]

InitialVertexOffset == 1

DocumentHeader(groupName) ==
    << << "#", "Group:", groupName >>, << "#", "Exported from Gen-Blender Pro" >>, << >> >>

\* the inner forEach over one group's nodes: objOutput, vertexOffset, and the
\* value of vertexOffset after each node (counters)
RECURSIVE SerializeNodes(_, _, _)
SerializeNodes(nodes, idx, st) ==
    IF idx >= Len(nodes) THEN st
    ELSE LET node == nodes[idx + 1]
             geo  == addGeometry(node, st.vertexOffset)
             objOutput == st.objOutput
                          \o << << "o", node.name, idx >> >>
                          \o << << "usemtl", MaterialId(node.material.color) >> >>
                          \o geo.lines
                          \o << << >> >>
         IN SerializeNodes(nodes, idx + 1,
                [ objOutput    |-> objOutput,
                  vertexOffset |-> geo.vertexOffset,
                  counters     |-> Append(st.counters, geo.vertexOffset) ])

SerializeGroup(groupName, nodes) ==
    SerializeNodes(nodes, 0,
        [ objOutput    |-> DocumentHeader(groupName),
          vertexOffset |-> InitialVertexOffset,
          counters     |-> << InitialVertexOffset >> ])

\* (mutant) no early return when there is nothing to export
ExportRunWithoutGuard(nodes, targetGroup) ==
    LET selected == nodesToExport(nodes, targetGroup)
        grouped  == groupedNodes(selected)
        threw    == "threw" \in DOMAIN grouped
        written  == IF threw THEN { } ELSE DOMAIN grouped.lists
        runs     == [g \in written |-> SerializeGroup(g, grouped.lists[g])]
    IN [ called        |-> TRUE,
         nodes         |-> nodes,
         targetGroup   |-> targetGroup,
         nodesToExport |-> selected,
         returned      |-> FALSE,
         threw         |-> threw,
         keys          |-> grouped.keys,
         groupedNodes  |-> grouped.lists,
         files         |-> [g \in DOMAIN runs |-> runs[g].objOutput],
         counters      |-> [g \in DOMAIN runs |-> runs[g].counters] ]

\* the synchronous part of handleExport: what it puts into the archive, in
\* the order of Object.keys(groupedNodes); nothing when the grouping threw.
\* nodes is sceneData.nodes of the render whose handler is invoked.
ExportRun(nodes, targetGroup) ==
    LET selected == nodesToExport(nodes, targetGroup)
        grouped  == IF Len(selected) = 0
                    THEN [lists |-> << >>, keys |-> << >>]
                    ELSE groupedNodes(selected)
        threw    == "threw" \in DOMAIN grouped
        written  == IF threw THEN { } ELSE DOMAIN grouped.lists
        runs     == [g \in written |-> SerializeGroup(g, grouped.lists[g])]
    IN [ called        |-> TRUE,
         nodes         |-> nodes,
         targetGroup   |-> targetGroup,
         nodesToExport |-> selected,
         returned      |-> Len(selected) = 0,
         threw         |-> threw,
         keys          |-> grouped.keys,
         groupedNodes  |-> grouped.lists,
         files         |-> [g \in DOMAIN runs |-> runs[g].objOutput],
         counters      |-> [g \in DOMAIN runs |-> runs[g].counters] ]

\* ------------------------------------------------------------------ state
VARIABLES
    sceneData,     \* App: useState<SceneData>
    history,       \* App: useState<ChatMessage[]>
    isProcessing,  \* App: useState(false)
    requests,      \* the handleSendMessage invocations that are awaiting a remote call
    zips,          \* the handleExport invocations that are awaiting zip.generateAsync
    download,      \* the archive last handed to the browser by a.click()
    exportRun,     \* the locals of the last handleExport invocation
    generation     \* how the last generateSceneFromPrompt invocation left its try block

vars == << sceneData, history, isProcessing, requests, zips, download, exportRun,
           generation >>

INITIAL_SCENE ==
    [ nodes |-> << >>, environment |-> "city", ambientLightIntensity |-> "0.5",
      aiReasoning |-> << >> ]

\* Date.now().toString(): the model keeps no clock, every such id is this token
DateNowId == "now"

WelcomeMessage ==
    [ id |-> "welcome", role |-> "ai", text |-> << "Gen-Blender Pro v3.3 ready" >>,
      attachment |-> Undefined ]

NoDownload == [ name |-> << >>, files |-> << >> ]

NoExportRun ==
    [ nodes |-> << >>, targetGroup |-> Undefined, nodesToExport |-> << >>, returned |-> TRUE,
      threw |-> FALSE, keys |-> << >>, groupedNodes |-> << >>, files |-> << >>,
      counters |-> << >>, called |-> FALSE ]

Init ==
    /\ sceneData = INITIAL_SCENE
    /\ history = << WelcomeMessage >>
    /\ isProcessing = FALSE
    /\ requests = << >>
    /\ zips = << >>
    /\ download = NoDownload
    /\ exportRun = NoExportRun
    /\ generation = "not called"

RemoveAt(s, i) == SubSeq(s, 1, i - 1) \o SubSeq(s, i + 1, Len(s))

\* The hierarchy useMemo of a render: the group names the Explorer lists.
\* The nodes are first sorted by a.name.localeCompare(b.name), which throws
\* for a node without a name that the sort hands over as a: with the binary
\* insertion of V8, every node but the first. For a group named as a property
\* of Object.prototype, groups[g] is the inherited value and push throws.
hierarchy ==
    IF \E i \in 2..Len(sceneData.nodes) : "name" \notin DOMAIN sceneData.nodes[i]
    THEN [ threw |-> "TypeError: Cannot read properties of undefined (reading 'localeCompare')" ]
    ELSE IF \E i \in DOMAIN sceneData.nodes :
                NormalizedGroup(sceneData.nodes[i]) \in PrototypeKeys
    THEN [ threw |-> "TypeError: groups[g].push is not a function" ]
    ELSE [ keys |-> { NormalizedGroup(sceneData.nodes[i]) : i \in DOMAIN sceneData.nodes } ]

\* App has rendered the current scene. A render that throws unmounts the
\* whole tree (there is no error boundary): no button and no textarea is left,
\* and no handler closes over that scene.
Rendered == "keys" \in DOMAIN hierarchy

\* ------------------------------------------------------------------ Terminal
\* what the user can have typed, and the image that can be attached
Inputs == { << " " >>, << "h" >> }
Images == { Undefined, "data:image/png;base64,AAAA" }

\* String.prototype.trim
RECURSIVE TrimLeft(_)
TrimLeft(s) == IF Len(s) > 0 /\ Head(s) = " " THEN TrimLeft(Tail(s)) ELSE s
RECURSIVE TrimRight(_)
TrimRight(s) ==
    IF Len(s) > 0 /\ s[Len(s)] = " " THEN TrimRight(SubSeq(s, 1, Len(s) - 1)) ELSE s
Trim(s) == TrimRight(TrimLeft(s))

UserMessages == SelectSeq(history, LAMBDA m : m.role = "user")

\* the context sent with a request: name, grp, pos, sz of every node. A
\* position with a component that is itself an array has that component
\* in the field nested of the node, and so of pos.
CurrentContext(nodes) ==
    [ i \in 1..Len(nodes) |->
        IF "nested" \in DOMAIN nodes[i]
        THEN [ name |-> nodes[i].name, grp |-> nodes[i].group,
               pos |-> nodes[i].position, sz |-> nodes[i].scale,
               nested |-> nodes[i].nested ]
        ELSE [ name |-> nodes[i].name, grp |-> nodes[i].group,
               pos |-> nodes[i].position, sz |-> nodes[i].scale ] ]

\* A value nested deeper than the recursion of JSON.stringify reaches:
\* JSON.parse yields it, JSON.stringify throws a RangeError on it.
Deep == "[[...]]"

\* JSON.stringify of the context throws
JsonStringifyThrows(context) ==
    \E i \in DOMAIN context : "nested" \in DOMAIN context[i] /\ context[i].nested = Deep

\* the message of the catch block of handleSendMessage
SystemErrorMessage ==
    [ id |-> DateNowId, role |-> "ai", text |-> << "System error." >>,
      attachment |-> Undefined ]

\* handleSendMessage up to its first await; without an attachment the context
\* is serialized before any await, and when that throws the catch and finally
\* blocks run in the same call
handleSendMessage(text, attachment) ==
    LET userMsg == [ id |-> DateNowId, role |-> "user", text |-> text,
                     attachment |-> attachment ]
        analyzing == [ id |-> "analyzing", role |-> "system",
                       text |-> << "Reading style and materials from the photo" >>,
                       attachment |-> Undefined ]
        currentContext == CurrentContext(sceneData.nodes)
    IN IF ~Truthy(attachment) /\ JsonStringifyThrows(currentContext)
       THEN /\ history' = history \o << userMsg, SystemErrorMessage >>
            /\ isProcessing' = FALSE
            /\ UNCHANGED << sceneData, requests, zips, download, exportRun, generation >>
       ELSE /\ history' = IF Truthy(attachment)
                          THEN history \o << userMsg, analyzing >>
                          ELSE Append(history, userMsg)
            /\ isProcessing' = TRUE
            /\ requests' = Append(requests,
                  [ pc |-> IF Truthy(attachment) THEN "analyzeTextureImage"
                                                 ELSE "generateSceneFromPrompt",
                    text |-> text,
                    attachment |-> attachment,
                    finalPrompt |-> text,
                    currentContext |-> currentContext ])
            /\ UNCHANGED << sceneData, zips, download, exportRun, generation >>

\* (mutant) the early return without the busy flag
SendRejectedIgnoringBusy(input, base64Image) ==
    Len(Trim(input)) = 0 /\ ~Truthy(base64Image)

\* the early return of handleSend
SendRejected(input, base64Image) ==
    (Len(Trim(input)) = 0 /\ ~Truthy(base64Image)) \/ isProcessing

handleSend(input, base64Image) ==
    IF SendRejected(input, base64Image)
    THEN UNCHANGED vars
    ELSE handleSendMessage(input, base64Image)

\* Enter without Shift in the textarea
handleKeyDown ==
    \E input \in Inputs, base64Image \in Images :
        /\ Rendered
        /\ Len(UserMessages) < MaxRequests
        /\ handleSend(input, base64Image)

\* a click on the Send button, which is disabled while isProcessing
ClickSend ==
    \E input \in Inputs, base64Image \in Images :
        /\ Rendered
        /\ Len(UserMessages) < MaxRequests
        /\ ~isProcessing
        /\ handleSend(input, base64Image)

\* ------------------------------------------------------------------ service
\* analyzeTextureImage: the remote call returns a text, returns no text, or
\* throws; the function itself always returns a string
AnalysisOutcomes == { "text", "empty", "throws" }

analyzeTextureImage(outcome) ==
    CASE outcome = "text"   -> "analysis of the image"
      [] outcome = "empty"  -> "Analysis complete."
      [] outcome = "throws" -> "Texture analysis failed. Using text prompt only."

\* the analysis call of request i returns; handleSendMessage serializes the
\* context and goes on to its second await, or, when the serialization
\* throws, through its catch and finally blocks
AnalysisReturns ==
    \E i \in DOMAIN requests, outcome \in AnalysisOutcomes :
        /\ requests[i].pc = "analyzeTextureImage"
        /\ IF JsonStringifyThrows(requests[i].currentContext)
           THEN /\ history' = Append(history, SystemErrorMessage)
                /\ isProcessing' = FALSE
                /\ requests' = RemoveAt(requests, i)
           ELSE /\ requests' = [requests EXCEPT
                       ![i].pc = "generateSceneFromPrompt",
                       ![i].finalPrompt = << "SOURCE MATERIAL:", analyzeTextureImage(outcome),
                                             "USER REQUEST:" >> \o requests[i].text]
                /\ UNCHANGED << history, isProcessing >>
        /\ UNCHANGED << sceneData, zips, download, exportRun, generation >>

\* A response text is a sequence of pieces; each piece is a record whose field
\* ch names its text, and no piece but the braces holds a brace:
\*   "{" "}" "," " " "5" "x"   that one character ("5" a digit, "x" a letter)
\*   "\"nodes\":["            the nodes key and the opening of its array
\*   "],.."                   the end of the nodes array and the members
\*                            environment, ambientLightIntensity and aiReasoning,
\*                            whose values are in the field value
\*   "..,\"material\":"       the members of a node up to its material key
\*   "\"color\":.."           the color member of a material
\*   "\"nodes\":\"none\",.."  a nodes member that is a string, and the settings
Piece(ch) == [ ch |-> ch ]

Chars == { "{", "}", " ", "5", "x" }

RECURSIVE SeqsUpTo(_, _)
SeqsUpTo(S, n) ==
    IF n = 0 THEN { << >> }
    ELSE LET shorter == SeqsUpTo(S, n - 1)
         IN shorter \cup { Append(s, c) : s \in { t \in shorter : Len(t) = n - 1 }, c \in S }

Texts == SeqsUpTo({ Piece(ch) : ch \in Chars }, MaxTextLen)

\* String.prototype.indexOf / lastIndexOf, zero-based, -1 when absent
RECURSIVE IndexFrom(_, _, _)
IndexFrom(text, ch, i) ==
    IF i > Len(text) THEN -1
    ELSE IF text[i].ch = ch THEN i - 1 ELSE IndexFrom(text, ch, i + 1)
IndexOf(text, ch) == IndexFrom(text, ch, 1)

RECURSIVE LastIndexFrom(_, _, _)
LastIndexFrom(text, ch, i) ==
    IF i < 1 THEN -1
    ELSE IF text[i].ch = ch THEN i - 1 ELSE LastIndexFrom(text, ch, i - 1)
LastIndexOf(text, ch) == LastIndexFrom(text, ch, Len(text))

\* String.prototype.substring(start, end): arguments clamped to [0, length]
\* and swapped when start > end
Clamp(n, len) == IF n < 0 THEN 0 ELSE IF n > len THEN len ELSE n
Substring(text, start, end) ==
    LET a  == Clamp(start, Len(text))
        b  == Clamp(end, Len(text))
        lo == IF a <= b THEN a ELSE b
        hi == IF a <= b THEN b ELSE a
    IN SubSeq(text, lo + 1, hi)

\* (mutant) the text cut at its first closing brace
CleanJsonToFirstClosing(jsonText) ==
    Substring(jsonText, IndexOf(jsonText, "{"), IndexOf(jsonText, "}") + 1)

CleanJson(jsonText) ==
    Substring(jsonText, IndexOf(jsonText, "{"), LastIndexOf(jsonText, "}") + 1)

\* ------------------------------------------------------------------ JSON.parse
\* The values: an object is the record of its members; a number, a string
\* and an array, whose type the code can meet where it expects another, are
\* records with the one field jsNumber (the count of its digits), jsString or
\* jsArray (the sequence of its elements).
EmptyObject == [ member \in { } |-> 0 ]

SyntaxError == [ ok |-> FALSE, next |-> 0, value |-> EmptyObject ]

Parsed(value, next) == [ ok |-> TRUE, next |-> next, value |-> value ]

\* the first place from i on that holds no white space
RECURSIVE SkipSpace(_, _)
SkipSpace(text, i) ==
    IF i <= Len(text) /\ text[i].ch = " " THEN SkipSpace(text, i + 1) ELSE i

\* the count of digits from place i on
RECURSIVE Digits(_, _)
Digits(text, i) ==
    IF i <= Len(text) /\ text[i].ch = "5" THEN 1 + Digits(text, i + 1) ELSE 0

Is(text, i, ch) == i <= Len(text) /\ text[i].ch = ch

\* The grammar of JSON over the pieces, white space allowed between pieces:
\*   value    ::=  "5"+  |  "{" "}"  |  "{" member ( "," member )* "}"
\*   member   ::=  "\"color\":.."  |  "\"nodes\":\"none\",.."
\*              |  "..,\"material\":" value
\*              |  "\"nodes\":[" ( value ( "," value )* )? "],.."
\* Each operator is given a place that holds no white space and yields the
\* value and the place after it; a member met again replaces the earlier one.
RECURSIVE ParseValue(_, _), ParseMembers(_, _, _), ParseElements(_, _, _)
ParseValue(text, i) ==
    IF Is(text, i, "5")
    THEN Parsed([ jsNumber |-> Digits(text, i) ], i + Digits(text, i))
    ELSE IF Is(text, i, "{")
    THEN IF Is(text, SkipSpace(text, i + 1), "}")
         THEN Parsed(EmptyObject, SkipSpace(text, i + 1) + 1)
         ELSE ParseMembers(text, SkipSpace(text, i + 1), EmptyObject)
    ELSE SyntaxError

ParseMembers(text, i, object) ==
    LET member ==
            IF Is(text, i, "\"color\":..") \/ Is(text, i, "\"nodes\":\"none\",..")
            THEN Parsed(text[i].value, i + 1)
            ELSE IF Is(text, i, "..,\"material\":")
            THEN LET material == ParseValue(text, SkipSpace(text, i + 1))
                 IN IF material.ok
                    THEN Parsed([ material |-> material.value ] @@ text[i].value,
                                material.next)
                    ELSE SyntaxError
            ELSE IF Is(text, i, "\"nodes\":[")
            THEN ParseElements(text, SkipSpace(text, i + 1), << >>)
            ELSE SyntaxError
        after == SkipSpace(text, member.next)
    IN IF ~member.ok THEN SyntaxError
       ELSE IF Is(text, after, "}") THEN Parsed(member.value @@ object, after + 1)
       ELSE IF Is(text, after, ",")
       THEN ParseMembers(text, SkipSpace(text, after + 1), member.value @@ object)
       ELSE SyntaxError

ParseElements(text, i, elements) ==
    IF Len(elements) = 0 /\ Is(text, i, "],..")
    THEN Parsed([ nodes |-> [ jsArray |-> << >> ] ] @@ text[i].value, i + 1)
    ELSE LET element == ParseValue(text, i)
             after   == SkipSpace(text, element.next)
             all     == Append(elements, element.value)
         IN IF ~element.ok THEN SyntaxError
            ELSE IF Is(text, after, ",") THEN ParseElements(text, SkipSpace(text, after + 1), all)
            ELSE IF Is(text, after, "],..")
            THEN Parsed([ nodes |-> [ jsArray |-> all ] ] @@ text[after].value, after + 1)
            ELSE SyntaxError

\* JSON.parse of the cleaned text: its value, or a SyntaxError
JsonParse(cleanJson) ==
    LET parsed == ParseValue(cleanJson, SkipSpace(cleanJson, 1))
    IN IF parsed.ok /\ SkipSpace(cleanJson, parsed.next) > Len(cleanJson)
       THEN parsed
       ELSE SyntaxError

\* data.nodes is an array
HasNodesArray(data) ==
    /\ "jsNumber" \notin DOMAIN data
    /\ "nodes" \in DOMAIN data
    /\ "jsArray" \in DOMAIN data.nodes

\* ------------------------------------------------------------------ responses
\* the nodes a response can carry: well-formed ones, two of them with the same
\* name, and one whose position has four components
ResponseNodes ==
    { [ name |-> "a", group |-> "A", type |-> "box",
        position |-> << 0, 1, 0 >>, rotation |-> << 0, 0, 0 >>, scale |-> << 1, 1, 1 >>,
        segments |-> 0, shapePath |-> << >>, material |-> [ color |-> << "#", "f" >> ] ],
      [ name |-> "a", group |-> "", type |-> "plane",
        position |-> << 1, 0, 0, 0 >>, rotation |-> << 0, 1, 0 >>, scale |-> << 2, 2, 1 >>,
        segments |-> 8, shapePath |-> << >>, material |-> [ color |-> << "f", "#" >> ] ] }

NodeLists == SeqsUpTo(ResponseNodes, MaxNodes)

\* environment, ambientLightIntensity (as the JSON literal) and aiReasoning
\* of a response: as the schema asks, with an environment outside the
\* enumeration, with a string for the intensity
Settings ==
    { [ environment |-> "city", ambientLightIntensity |-> "0.5", aiReasoning |-> << "log" >> ],
      [ environment |-> "mars", ambientLightIntensity |-> "0.5", aiReasoning |-> << >> ],
      [ environment |-> "night", ambientLightIntensity |-> "'high'", aiReasoning |-> << >> ] }

\* what the remote model can answer with: an object with a nodes array, or
\* one whose nodes member is a string
Payloads ==
    { [ nodesKind |-> "array", nodes |-> nodes, environment |-> s.environment,
        ambientLightIntensity |-> s.ambientLightIntensity, aiReasoning |-> s.aiReasoning ] :
      nodes \in NodeLists, s \in Settings }
    \cup
    { [ nodesKind |-> "string", nodes |-> << >>, environment |-> "city",
        ambientLightIntensity |-> "0.5", aiReasoning |-> << "log" >> ] }

Without(record, field) == [ f \in DOMAIN record \ { field } |-> record[f] ]

\* the text of a node object
NodeText(node) ==
    << Piece("{"),
       [ ch |-> "..,\"material\":", value |-> Without(node, "material") ],
       Piece("{"),
       [ ch |-> "\"color\":..", value |-> node.material ],
       Piece("}"),
       Piece("}") >>

RECURSIVE NodesText(_, _)
NodesText(nodes, i) ==
    IF i > Len(nodes) THEN << >>
    ELSE ( IF i > 1 THEN << Piece(",") >> ELSE << >> )
         \o NodeText(nodes[i]) \o NodesText(nodes, i + 1)

\* response.text for a payload, as the remote model writes it under
\* responseMimeType "application/json"
JsonText(payload) ==
    LET settings == Without(Without(payload, "nodes"), "nodesKind")
    IN IF payload.nodesKind = "array"
       THEN << Piece("{"), Piece("\"nodes\":[") >>
            \o NodesText(payload.nodes, 1)
            \o << [ ch |-> "],..", value |-> settings ], Piece("}") >>
       ELSE << Piece("{"),
               [ ch |-> "\"nodes\":\"none\",..",
                 value |-> [ nodes |-> [ jsString |-> "none" ] ] @@ settings ],
               Piece("}") >>

\* Math.random().toString(36).substr(2, 9)
Suffixes == { "0", "1" }

RandomDraws(n) == [ 1..n -> Suffixes ]

FailureText == << "Calculation error. Try to simplify the task." >>

\* the catch block; error is what was thrown
FailureResult(error) ==
    [ text |-> FailureText, hasData |-> FALSE, data |-> INITIAL_SCENE, exit |-> error ]

\* node.name of an element of data.nodes
NameOf(node) == IF "name" \in DOMAIN node THEN node.name ELSE "undefined"

\* { ...node }: the own members of an object, none for a number
Spread(node) == IF "jsNumber" \in DOMAIN node THEN EmptyObject ELSE node

\* the return statement: every node with its id, the other members as parsed
ReturnData(data, nodes, random) ==
    LET nodesWithIds ==
            [ i \in 1..Len(nodes) |->
                [ id |-> << NameOf(nodes[i]), random[i] >> ] @@ Spread(nodes[i]) ]
        aiReasoning == IF "aiReasoning" \in DOMAIN data THEN data.aiReasoning ELSE << >>
    IN [ text |-> IF Len(aiReasoning) > 0 THEN aiReasoning
                  ELSE << "Architecture calculated." >>,
         hasData |-> TRUE,
         exit |-> "returned data",
         data |-> [ nodes |-> nodesWithIds ] @@ data ]

\* (mutant) an object without a nodes array taken as a scene without nodes
generateSceneFromPromptDefaultingNodes(throws, jsonText, random) ==
    IF throws THEN FailureResult("remote call failed")
    ELSE IF Len(jsonText) = 0 THEN FailureResult("Empty response")
    ELSE LET parsed == JsonParse(CleanJson(jsonText))
         IN IF ~parsed.ok THEN FailureResult("SyntaxError")
            ELSE IF ~HasNodesArray(parsed.value)
            THEN ReturnData(Spread(parsed.value) @@ INITIAL_SCENE, << >>, random)
            ELSE ReturnData(parsed.value, parsed.value.nodes.jsArray, random)

\* generateSceneFromPrompt, given what the remote call did (it throws, or it
\* yields response.text) and the random draws, one for each node
generateSceneFromPrompt(throws, jsonText, random) ==
    IF throws THEN FailureResult("remote call failed")
    ELSE IF Len(jsonText) = 0 THEN FailureResult("Empty response")
    ELSE LET parsed == JsonParse(CleanJson(jsonText))
         IN IF ~parsed.ok THEN FailureResult("SyntaxError")
            ELSE IF ~HasNodesArray(parsed.value) THEN FailureResult("TypeError")
            ELSE ReturnData(parsed.value, parsed.value.nodes.jsArray, random)

\* (mutant) the busy flag cleared only where the scene is replaced
FinishRequestClearingOnSuccess(i, response) ==
    LET aiResponseText ==
            IF response.hasData
            THEN (IF Len(response.text) > 0 THEN response.text ELSE << "Scene updated." >>)
            ELSE response.text
        filtered == SelectSeq(history, LAMBDA m : m.id # "analyzing")
    IN /\ sceneData' = IF response.hasData THEN response.data ELSE sceneData
       /\ history' = Append(filtered,
             [ id |-> DateNowId, role |-> "ai", text |-> aiResponseText,
               attachment |-> Undefined ])
       /\ isProcessing' = IF response.hasData THEN FALSE ELSE isProcessing
       /\ requests' = RemoveAt(requests, i)
       /\ generation' = response.exit
       /\ UNCHANGED << zips, download, exportRun >>

\* handleSendMessage from the return of generateSceneFromPrompt to its end
FinishRequest(i, response) ==
    LET aiResponseText ==
            IF response.hasData
            THEN (IF Len(response.text) > 0 THEN response.text ELSE << "Scene updated." >>)
            ELSE response.text
        filtered == SelectSeq(history, LAMBDA m : m.id # "analyzing")
    IN /\ sceneData' = IF response.hasData THEN response.data ELSE sceneData
       /\ history' = Append(filtered,
             [ id |-> DateNowId, role |-> "ai", text |-> aiResponseText,
               attachment |-> Undefined ])
       /\ isProcessing' = FALSE
       /\ requests' = RemoveAt(requests, i)
       /\ generation' = response.exit
       /\ UNCHANGED << zips, download, exportRun >>

ArrayPayloads == { p \in Payloads : p.nodesKind = "array" }
OtherPayloads == Payloads \ ArrayPayloads

\* the number of random draws a text asks for: one for each element of the
\* nodes array of its cleaned part
DrawsFor(jsonText) ==
    LET parsed == JsonParse(CleanJson(jsonText))
    IN IF parsed.ok /\ HasNodesArray(parsed.value)
       THEN RandomDraws(Len(parsed.value.nodes.jsArray))
       ELSE { << >> }

\* the generation call of request i fails: the remote call throws, or its text
\* is absent or empty, or does not parse, or parses to a value without a
\* nodes array
GenerationFails ==
    \E i \in DOMAIN requests, throws \in BOOLEAN,
       jsonText \in Texts \cup { JsonText(payload) : payload \in OtherPayloads } :
        /\ requests[i].pc = "generateSceneFromPrompt"
        /\ throws => jsonText = << >>
        /\ FinishRequest(i, generateSceneFromPrompt(throws, jsonText, << >>))

\* the generation call of request i yields the text of one of payloads, which
\* asks for one random draw for each of its nodes
GenerationReturnsWith(payloads) ==
    \E i \in DOMAIN requests, payload \in payloads :
        /\ requests[i].pc = "generateSceneFromPrompt"
        /\ LET jsonText == JsonText(payload)
           IN \E random \in RandomDraws(Len(payload.nodes)) :
                 FinishRequest(i, generateSceneFromPrompt(FALSE, jsonText, random))

GenerationReturns == GenerationReturnsWith(ArrayPayloads)

\* ------------------------------------------------------------------ export actions
\* Date.now() at the time of a download
Times == { 1, 2 }

\* (mutant) the time of the export written into every document, as it is
\* written into the name of the full archive
handleExportStampingDocuments(targetGroup) ==
    \E now \in Times :
        LET run     == ExportRun(sceneData.nodes, targetGroup)
            stamped == [ g \in DOMAIN run.files |->
                           << << "#", "Exported", "at", "time", "Date.now()", now >> >>
                              \o run.files[g] ]
        IN /\ exportRun' = [ run EXCEPT !.files = stamped ]
           /\ IF run.returned \/ run.threw
              THEN zips' = zips
              ELSE /\ Len(zips) < MaxPending
                   /\ zips' = Append(zips, [ targetGroup |-> targetGroup, files |-> stamped ])
           /\ UNCHANGED << sceneData, history, isProcessing, requests, download, generation >>

\* (mutant) the filtered list stored as the scene's nodes
handleExportFilteringInPlace(targetGroup) ==
    LET run == ExportRun(sceneData.nodes, targetGroup)
    IN /\ exportRun' = run
       /\ IF run.returned \/ run.threw
          THEN zips' = zips
          ELSE /\ Len(zips) < MaxPending
               /\ zips' = Append(zips, [ targetGroup |-> targetGroup, files |-> run.files ])
       /\ sceneData' = [sceneData EXCEPT !.nodes = run.nodesToExport]
       /\ UNCHANGED << history, isProcessing, requests, download, generation >>

\* handleExport up to its await: nothing else happens when there is nothing
\* to export or the grouping throws (the promise of the call is rejected),
\* otherwise the files are handed to zip.generateAsync
handleExport(targetGroup) ==
    LET run == ExportRun(sceneData.nodes, targetGroup)
    IN /\ exportRun' = run
       /\ IF run.returned \/ run.threw
          THEN zips' = zips
          ELSE /\ Len(zips) < MaxPending
               /\ zips' = Append(zips, [ targetGroup |-> targetGroup, files |-> run.files ])
       /\ UNCHANGED << sceneData, history, isProcessing, requests, download, generation >>

\* (mutant) the documents written when the archive is encoded, from the scene
\* of that moment
zipGeneratedReadingScene ==
    \E i \in DOMAIN zips, now \in Times :
        /\ download' =
              [ name  |-> IF Truthy(zips[i].targetGroup)
                          THEN << zips[i].targetGroup, ".zip" >>
                          ELSE << "Full_Project_", now, ".zip" >>,
                files |-> ExportRunWithoutGuard(sceneData.nodes, zips[i].targetGroup).files ]
        /\ zips' = RemoveAt(zips, i)
        /\ UNCHANGED << sceneData, history, isProcessing, requests, exportRun, generation >>

\* zip.generateAsync resolves: the rest of handleExport
zipGenerated ==
    \E i \in DOMAIN zips, now \in Times :
        /\ download' =
              [ name  |-> IF Truthy(zips[i].targetGroup)
                          THEN << zips[i].targetGroup, ".zip" >>
                          ELSE << "Full_Project_", now, ".zip" >>,
                files |-> zips[i].files ]
        /\ zips' = RemoveAt(zips, i)
        /\ UNCHANGED << sceneData, history, isProcessing, requests, exportRun, generation >>

\* the export buttons: the Terminal's and "Download Full Project" call
\* handleExport(), a group's button calls handleExport(groupName)
ClickExport ==
    /\ Rendered
    /\ \E targetGroup \in { Undefined } \cup hierarchy.keys : handleExport(targetGroup)

\* the responses of the whole application: the scenes of one setting
SceneReplacements == { p \in ArrayPayloads : p.environment = "city" }

Next ==
    \/ handleKeyDown
    \/ ClickSend
    \/ AnalysisReturns
    \/ GenerationFails
    \/ GenerationReturnsWith(SceneReplacements)
    \/ ClickExport
    \/ zipGenerated

Spec == Init /\ [][Next]_vars

\* the application while every response carries a scene: exports and scene
\* replacements in every interleaving
NextSnapshot ==
    \/ handleKeyDown
    \/ ClickSend
    \/ AnalysisReturns
    \/ GenerationReturnsWith(SceneReplacements)
    \/ ClickExport
    \/ zipGenerated

SpecSnapshot == Init /\ [][NextSnapshot]_vars

\* the conversation alone
NextChat ==
    \/ handleKeyDown
    \/ ClickSend
    \/ AnalysisReturns
    \/ GenerationFails
    \/ GenerationReturns

SpecChat == Init /\ [][NextChat]_vars

\* the conversation under the scheduling the code relies on: a remote call
\* that was issued returns or throws. The responses are those of one setting.
NextChatFair ==
    \/ handleKeyDown
    \/ ClickSend
    \/ AnalysisReturns
    \/ GenerationFails
    \/ GenerationReturnsWith(SceneReplacements)

SpecChatFair ==
    /\ Init /\ [][NextChatFair]_vars
    /\ WF_vars(AnalysisReturns)
    /\ WF_vars(GenerationFails \/ GenerationReturnsWith(SceneReplacements))

\* ------------------------------------------------------------------ a scene that cannot be serialized
\* the conversation when a response can carry a node whose position has a
\* fourth component that is nested too deep for JSON.stringify, or a node
\* whose group is named as a property of Object.prototype, on which the
\* render of App throws
DeepNodes ==
    { [ name |-> "d", group |-> "", type |-> "box",
        position |-> << 0, 0, 0 >>, nested |-> Deep, rotation |-> << 0, 0, 0 >>,
        scale |-> << 1, 1, 1 >>, segments |-> 0, shapePath |-> << >>,
        material |-> [ color |-> << "#", "f" >> ] ],
      [ name |-> "p", group |-> "constructor", type |-> "box",
        position |-> << 0, 0, 0 >>, rotation |-> << 0, 0, 0 >>,
        scale |-> << 1, 1, 1 >>, segments |-> 0, shapePath |-> << >>,
        material |-> [ color |-> << "#", "f" >> ] ] }

DeepPayloads ==
    { [ nodesKind |-> "array", nodes |-> nodes, environment |-> "city",
        ambientLightIntensity |-> "0.5", aiReasoning |-> << >> ] :
      nodes \in { << >> } \cup { << node >> : node \in DeepNodes } }

NextDeep ==
    \/ handleKeyDown
    \/ ClickSend
    \/ AnalysisReturns
    \/ GenerationFails
    \/ GenerationReturnsWith(DeepPayloads)

SpecDeep == Init /\ [][NextDeep]_vars

\* ------------------------------------------------------------------ ingestion alone
\* One request is in flight, as handleSendMessage leaves it for the input "h"
\* without an attachment; its response is the text of a payload, or the
\* members of one without the braces around them, or nothing, with up to
\* MaxWrappedLen characters before it and as many after it. Here generation
\* records the text along with the way the try block was left.
IngestPayloads == { p \in Payloads : p.environment = "city" /\ Len(p.nodes) <= 1 }

MembersText(payload) == SubSeq(JsonText(payload), 2, Len(JsonText(payload)) - 1)

WrappedTexts ==
    { lead \o body \o trail :
        lead \in SeqsUpTo({ Piece(ch) : ch \in Chars }, MaxWrappedLen),
        body \in { << >> } \cup { JsonText(payload) : payload \in IngestPayloads }
                          \cup { MembersText(payload) : payload \in IngestPayloads },
        trail \in SeqsUpTo({ Piece(ch) : ch \in Chars }, MaxWrappedLen) }

InitIngest ==
    /\ sceneData = INITIAL_SCENE
    /\ history = << WelcomeMessage,
                    [ id |-> DateNowId, role |-> "user", text |-> << "h" >>,
                      attachment |-> Undefined ] >>
    /\ isProcessing = TRUE
    /\ requests = << [ pc |-> "generateSceneFromPrompt", text |-> << "h" >>,
                       attachment |-> Undefined, finalPrompt |-> << "h" >>,
                       currentContext |-> CurrentContext(INITIAL_SCENE.nodes) ] >>
    /\ zips = << >>
    /\ download = NoDownload
    /\ exportRun = NoExportRun
    /\ generation = [ exit |-> "not called", jsonText |-> << >> ]

\* the generation call of request i returns jsonText
ResponseArrives ==
    \E i \in DOMAIN requests, jsonText \in WrappedTexts :
        /\ requests[i].pc = "generateSceneFromPrompt"
        /\ \E random \in DrawsFor(jsonText) :
              LET result == generateSceneFromPrompt(FALSE, jsonText, random)
              IN FinishRequest(i,
                    [ result EXCEPT !.exit = [ exit |-> result.exit, jsonText |-> jsonText ] ])

SpecIngest == InitIngest /\ [][ResponseArrives]_vars

\* ------------------------------------------------------------------ export alone
\* A scene as a generation response leaves it, and then only exports.
SceneNode(name, group, type, position, rotation, scale, segments, shapePath, color) ==
    [ id |-> << name, "0" >>, name |-> name, group |-> group, type |-> type,
      position |-> position, rotation |-> rotation, scale |-> scale,
      segments |-> segments, shapePath |-> shapePath, material |-> [ color |-> color ] ]

SceneOf(nodes) ==
    [ nodes |-> nodes, environment |-> "city", ambientLightIntensity |-> "0.5",
      aiReasoning |-> << >> ]

InitWithScenes(scenes) ==
    /\ sceneData \in scenes
    /\ history = << WelcomeMessage >>
    /\ isProcessing = FALSE
    /\ requests = << >>
    /\ zips = << >>
    /\ download = NoDownload
    /\ exportRun = NoExportRun
    /\ generation = "not called"

\* nodes of two groups and both topologies, two of them with the same name
GroupedNodes ==
    { SceneNode("a", "A", "box", << 0, 1, 0 >>, << 0, 0, 0 >>, << 1, 1, 1 >>, 0, << >>,
                << "#", "f" >>),
      SceneNode("a", "", "plane", << 1, 0, 0 >>, << 0, 1, 0 >>, << 2, 2, 1 >>, 8, << >>,
                << "f", "#" >>),
      SceneNode("c", "A", "window", << 0, 0, 2 >>, << 1, 0, 0 >>, << 1, 2, 1 >>, 0, << >>,
                << "f" >>) }

\* nodes of a group named by a letter, of one named as an array index, which
\* Object.keys lists first, and of one named as a property of Object.prototype,
\* on which the render throws
KeyedNodes ==
    { SceneNode("a", "A", "box", << 0, 1, 0 >>, << 0, 0, 0 >>, << 1, 1, 1 >>, 0, << >>,
                << "#", "f" >>),
      SceneNode("k", "1", "box", << 0, 0, 0 >>, << 0, 0, 0 >>, << 1, 1, 1 >>, 0, << >>,
                << "#", "f" >>),
      SceneNode("p", "constructor", "box", << 0, 0, 0 >>, << 0, 0, 0 >>, << 1, 1, 1 >>, 0,
                << >>, << "#", "f" >>) }

GroupedScenes ==
    { SceneOf(nodes) : nodes \in SeqsUpTo(GroupedNodes, MaxSceneLen)
                                 \cup SeqsUpTo(KeyedNodes, MaxSceneLen) }

\* handleExport as a function: no filter, the empty string, a group of the
\* scene, a group that is not in the scene
ContractTargets == { Undefined, "", "A", "1", "Ungrouped", "Z" }

ExportAny == Rendered /\ \E targetGroup \in ContractTargets : handleExport(targetGroup)

NextExport == ExportAny \/ zipGenerated

SpecExport == InitWithScenes(GroupedScenes) /\ [][NextExport]_vars

\* one node of any type, with or without segments and shapePath
TypedNodes ==
    { SceneNode("t", "G", type, << 0, 0, 0 >>, << 0, 0, 1 >>, << 1, 1, 1 >>, segments,
                shapePath, << "#", "0" >>) :
      type \in GeometryType, segments \in { 0, 8 },
      shapePath \in { << >>, << << 0, 0 >>, << 1, 0 >>, << 0, 1 >> >> } }

\* one node of either topology under every transform of a small grid
Triples(S) == { << x, y, z >> : x \in S, y \in S, z \in S }

TransformedNodes ==
    { SceneNode("t", "", type, position, rotation, scale, 0, << >>, << "#", "0" >>) :
      type \in { "box", "plane" },
      position \in { << x, y, 3 >> : x \in { -1, 2 }, y \in { -1, 2 } },
      rotation \in Triples(0..3), scale \in Triples({ 1, 2 }) }

\* one cube-topology node of any type, neither scaled nor turned
UnitNodes ==
    { SceneNode("u", "", type, position, << 0, 0, 0 >>, << 1, 1, 1 >>, 0, << >>,
                << "#", "0" >>) :
      type \in { t \in GeometryType : ~IsQuadType(t) },
      position \in { << 0, 0, 0 >>, << -1, 2, 3 >> } }

SingleNodeScenes ==
    { SceneOf(<< node >>) : node \in TypedNodes \cup TransformedNodes \cup UnitNodes }

ExportAll == Rendered /\ handleExport(Undefined)

NextGeom == ExportAll \/ zipGenerated

SpecGeom == InitWithScenes(SingleNodeScenes) /\ [][NextGeom]_vars

\* ================================================================== claims
\* the normalized groups of the scene's nodes
SceneGroups == { NormalizedGroup(sceneData.nodes[i]) : i \in DOMAIN sceneData.nodes }

\* the archives the state holds: those being encoded and the one downloaded;
\* a download names its group, or "Full_Project_" and a time
Archives ==
    { [ targetGroup |-> zips[i].targetGroup, files |-> zips[i].files ] : i \in DOMAIN zips }
    \cup
    ( IF download = NoDownload THEN { }
      ELSE { [ targetGroup |-> IF Len(download.name) = 2 THEN download.name[1]
                                                           ELSE Undefined,
               files |-> download.files ] } )

IsFull(archive) == ~Truthy(archive.targetGroup)

\* the positions in the scene of the nodes of group g, in scene order
MembersOf(g) ==
    SelectSeq([ i \in DOMAIN sceneData.nodes |-> i ],
              LAMBDA i : NormalizedGroup(sceneData.nodes[i]) = g)

VertexCount(node) == IF node.type \in { "plane", "window" } THEN 4 ELSE 8
FaceCount(node) == IF node.type \in { "plane", "window" } THEN 1 ELSE 6

RECURSIVE SumOver(_, _, _)
SumOver(f(_), s, k) == IF k = 0 THEN 0 ELSE f(s[k]) + SumOver(f, s, k - 1)

RECURSIVE Concat(_, _)
Concat(blocks, k) == IF k = 0 THEN << >> ELSE Concat(blocks, k - 1) \o blocks[k]

\* The document the claim describes for group g: the header, then for the
\* k-th node of the group (from 0) its object line, material line, vertex and
\* face lines numbered after the vertices of the nodes before it, a blank line.
ExpectedDocument(g) ==
    LET members == [ k \in DOMAIN MembersOf(g) |-> sceneData.nodes[MembersOf(g)[k]] ]
        first(k) == 1 + SumOver(VertexCount, members, k - 1)
        block(k) == << << "o", members[k].name, k - 1 >>,
                       << "usemtl", MaterialId(members[k].material.color) >> >>
                    \o addGeometry(members[k], first(k)).lines
                    \o << << >> >>
    IN DocumentHeader(g) \o Concat([ k \in DOMAIN members |-> block(k) ], Len(members))

\* C1: a filtered export of a group that has nodes produces that group's
\* document and no other, the document holds exactly the lines of the group's
\* nodes in scene order numbered from 1, and it is the document a full export
\* of the same scene produces for the group.
FilteredExportMatchesFull ==
    /\ ( exportRun.called /\ exportRun.targetGroup \in SceneGroups )
          => /\ ~exportRun.returned
             /\ DOMAIN exportRun.files = { exportRun.targetGroup }
             /\ exportRun.files[exportRun.targetGroup]
                   = ExpectedDocument(exportRun.targetGroup)
    /\ ( exportRun.called /\ ~Truthy(exportRun.targetGroup) )
          => /\ DOMAIN exportRun.files = SceneGroups
             /\ \A g \in SceneGroups : exportRun.files[g] = ExpectedDocument(g)
    /\ \A full \in Archives, part \in Archives :
          ( IsFull(full) /\ ~IsFull(part) )
             => /\ DOMAIN part.files = { part.targetGroup }
                /\ part.targetGroup \in DOMAIN full.files
                /\ part.files[part.targetGroup] = full.files[part.targetGroup]

\* C1 witness: a full export of a three-node scene with two groups has been
\* downloaded and the filtered export of the two-node group is being encoded.
FilteredAfterFullExport ==
    /\ Len(sceneData.nodes) = 3
    /\ download # NoDownload /\ Len(download.name) = 3
    /\ DOMAIN download.files = { "A", "Ungrouped" }
    /\ \E i \in DOMAIN zips :
          /\ zips[i].targetGroup = "A"
          /\ Len(MembersOf("A")) = 2
          /\ MembersOf("A") # << 1, 2 >>

\* C2: in every document the counter starts at 1 and after any prefix of the
\* group's nodes with N cube nodes and M quad nodes it is 1 + 8N + 4M.
CounterFormula ==
    exportRun.called =>
       \A g \in DOMAIN exportRun.counters :
          LET nodes == exportRun.groupedNodes[g]
              counters == exportRun.counters[g]
          IN /\ Len(counters) = Len(nodes) + 1
             /\ counters[1] = 1
             /\ \A k \in 0..Len(nodes) :
                   LET N == Cardinality({ j \in 1..k : nodes[j].type \notin { "plane", "window" } })
                       M == Cardinality({ j \in 1..k : nodes[j].type \in { "plane", "window" } })
                   IN counters[k + 1] = 1 + 8 * N + 4 * M

\* C2 witness: an export with two documents, one of them over a cube node
\* followed by a quad node and another node.
CounterOverMixedGroup ==
    /\ exportRun.called
    /\ Cardinality(DOMAIN exportRun.counters) = 2
    /\ \E g \in DOMAIN exportRun.counters :
          /\ Len(exportRun.groupedNodes[g]) = 2
          /\ exportRun.groupedNodes[g][1].type = "window"
          /\ exportRun.groupedNodes[g][2].type = "box"
          /\ exportRun.counters[g] = << 1, 5, 13 >>

\* C3: an export with nothing to export produces no document, hands nothing
\* to the archiver and triggers no download.
EmptyExportIsNoOp ==
    [][ \A targetGroup \in ContractTargets :
           ( handleExport(targetGroup)
             /\ Len(nodesToExport(sceneData.nodes, targetGroup)) = 0 )
              => /\ exportRun'.files = << >>
                 /\ zips' = zips
                 /\ download' = download ]_vars

\* C3 witness: a filter that matches no node of a scene that has nodes was
\* exported, after an archive had been downloaded.
EmptyFilteredExport ==
    /\ exportRun.called /\ exportRun.returned
    /\ Truthy(exportRun.targetGroup)
    /\ Len(sceneData.nodes) > 0
    /\ download # NoDownload

\* the first element of every line of a document ("" for a blank line)
Tags(document) ==
    [ i \in DOMAIN document |-> IF Len(document[i]) = 0 THEN "" ELSE document[i][1] ]

Repeat(x, n) == [ i \in 1..n |-> x ]

ExpectedTags(nodes) ==
    << "#", "#", "" >>
    \o Concat([ k \in DOMAIN nodes |->
                  << "o", "usemtl" >> \o Repeat("v", VertexCount(nodes[k]))
                  \o Repeat("f", FaceCount(nodes[k])) \o << "" >> ],
              Len(nodes))

\* C9: every exported node has 4 vertex lines and 1 face line when its type
\* is plane or window and 8 vertex lines and 6 face lines for any other type
\* of the enumeration, whatever its segments and shapePath.
TopologyByType ==
    exportRun.called =>
       \A g \in DOMAIN exportRun.files :
          /\ \A k \in DOMAIN exportRun.groupedNodes[g] :
                exportRun.groupedNodes[g][k].type \in GeometryType
          /\ Tags(exportRun.files[g]) = ExpectedTags(exportRun.groupedNodes[g])

\* C9 witness: an extrusion with a shapePath and segments has been exported
\* and downloaded.
ExtrusionExported ==
    /\ exportRun.called /\ ~exportRun.returned
    /\ download # NoDownload
    /\ sceneData.nodes[1].type = "extrusion"
    /\ Len(sceneData.nodes[1].shapePath) = 3
    /\ sceneData.nodes[1].segments = 8

\* The reference composition: elementary rotation matrices by quarter turns,
\* the diagonal scale matrix, matrix products, and a translation.
Rx(k) == << << 1, 0, 0 >>, << 0, Cos(k), -Sin(k) >>, << 0, Sin(k), Cos(k) >> >>
Ry(k) == << << Cos(k), 0, Sin(k) >>, << 0, 1, 0 >>, << -Sin(k), 0, Cos(k) >> >>
Rz(k) == << << Cos(k), -Sin(k), 0 >>, << Sin(k), Cos(k), 0 >>, << 0, 0, 1 >> >>
Diag(s) == << << s[1], 0, 0 >>, << 0, s[2], 0 >>, << 0, 0, s[3] >> >>

\* (each argument is bound once, so that nested products are evaluated once)
MatMul(A, B) ==
    CHOOSE m \in { [ i \in 1..3 |-> [ j \in 1..3 |->
                       a[i][1] * b[1][j] + a[i][2] * b[2][j] + a[i][3] * b[3][j] ] ] :
                   a \in { A }, b \in { B } } : TRUE
MatVec(A, p) ==
    CHOOSE v \in { [ i \in 1..3 |-> a[i][1] * q[1] + a[i][2] * q[2] + a[i][3] * q[3] ] :
                   a \in { A }, q \in { p } } : TRUE
VecAdd(p, q) == CHOOSE v \in { [ i \in 1..3 |-> a[i] + b[i] ] : a \in { p }, b \in { q } } : TRUE
Twice(p) == [ i \in 1..3 |-> 2 * p[i] ]

\* An order of the steps, as the affine map p |-> m.(p + before) + after.
Affine(m, before, after) == [ m |-> m, before |-> before, after |-> after ]
ApplyAffine(f, p) == VecAdd(MatVec(f.m, VecAdd(p, f.before)), f.after)
Origin == << 0, 0, 0 >>

OrdersOf(rx, ry, rz, sc, t) ==
    [ reference |-> Affine(MatMul(rz, MatMul(ry, MatMul(rx, sc))), Origin, t),
      others |->
        { Affine(MatMul(rx, MatMul(ry, MatMul(rz, sc))), Origin, t),     \* Z, Y, X
          Affine(MatMul(rz, MatMul(rx, MatMul(ry, sc))), Origin, t),     \* Y, X, Z
          Affine(MatMul(ry, MatMul(rz, MatMul(rx, sc))), Origin, t),     \* X, Z, Y
          Affine(MatMul(ry, MatMul(rx, MatMul(rz, sc))), Origin, t),     \* Z, X, Y
          Affine(MatMul(rx, MatMul(rz, MatMul(ry, sc))), Origin, t),     \* Y, Z, X
          Affine(MatMul(sc, MatMul(rz, MatMul(ry, rx))), Origin, t),     \* rotate, then scale
          Affine(MatMul(rz, MatMul(ry, MatMul(rx, sc))), t, Origin),     \* translate first
          Affine(MatMul(rz, MatMul(ry, MatMul(rx, sc))), Origin,
                 MatVec(MatMul(rz, MatMul(ry, rx)), t)) } ]              \* translate, then rotate

\* scale, then X, then Y, then Z, then translate (half units), and the same
\* steps in the other orders
Orders(n) ==
    OrdersOf(Rx(n.rotation[1]), Ry(n.rotation[2]), Rz(n.rotation[3]), Diag(n.scale),
             Twice(n.position))

\* the vertex lines of the only node of a one-node document
VertexLinesOf(document, node) == SubSeq(document, 6, 5 + VertexCount(node))

Printed(p) == << "v", 5000 * p[1], 5000 * p[2], 5000 * p[3] >>

\* C10: every exported vertex is the local corner scaled by scale * 0.5,
\* rotated about X, then Y, then Z, then translated; it is the reference
\* composition and differs from every composition in another order that
\* differs from the reference.
TransformOrder ==
    ( exportRun.called /\ Len(sceneData.nodes) = 1 ) =>
       \A node \in { sceneData.nodes[1] } :
          \A printed \in { VertexLinesOf(exportRun.files[NormalizedGroup(node)], node) },
             orders \in { Orders(node) } :
             /\ Len(printed) = VertexCount(node)
             /\ \A i \in DOMAIN printed :
                   \A corner \in { IF node.type \in { "plane", "window" }
                                   THEN QuadCorners[i] ELSE CubeCorners[i] } :
                      \A reference \in { ApplyAffine(orders.reference, corner) } :
                         /\ printed[i] = Printed(reference)
                         /\ \A other \in { ApplyAffine(f, corner) : f \in orders.others } :
                               other # reference => printed[i] # Printed(other)

\* C10 witness: a box turned about X and Y with unequal scales, away from the
\* origin, has been exported, and six other orders move one of its corners
\* elsewhere.
TurnedBoxExported ==
    /\ exportRun.called /\ Len(sceneData.nodes) = 1
    /\ sceneData.nodes[1].type = "box"
    /\ sceneData.nodes[1].rotation = << 1, 1, 3 >>
    /\ sceneData.nodes[1].scale = << 1, 2, 2 >>
    /\ sceneData.nodes[1].position = << -1, 2, 3 >>
    /\ \E i \in DOMAIN CubeCorners :
          Cardinality({ f \in Orders(sceneData.nodes[1]).others :
                          ApplyAffine(f, CubeCorners[i])
                             # ApplyAffine(Orders(sceneData.nodes[1]).reference,
                                           CubeCorners[i]) }) >= 6

\* C11: the 8 vertices exported for a cube-topology node with scale [1,1,1]
\* and rotation [0,0,0] are the 8 combinations position[i] + 0.5 or
\* position[i] - 0.5, each of them once.
UnitCubeVertices ==
    ( exportRun.called /\ Len(sceneData.nodes) = 1 ) =>
       \A node \in { sceneData.nodes[1] } :
          ( /\ node.type \notin { "plane", "window" }
            /\ node.scale = << 1, 1, 1 >>
            /\ node.rotation = << 0, 0, 0 >> )
          => \A printed \in { VertexLinesOf(exportRun.files[NormalizedGroup(node)], node) } :
                /\ Len(printed) = 8
                /\ { printed[i] : i \in DOMAIN printed }
                      = { << "v", 10000 * node.position[1] + 5000 * sign[1],
                                  10000 * node.position[2] + 5000 * sign[2],
                                  10000 * node.position[3] + 5000 * sign[3] >> :
                          sign \in Triples({ -1, 1 }) }
                /\ \A i, j \in DOMAIN printed : i # j => printed[i] # printed[j]

\* C11 witness: a tree that is neither scaled nor turned, away from the
\* origin, has been exported and downloaded.
UnitTreeExported ==
    /\ exportRun.called /\ ~exportRun.returned
    /\ download # NoDownload
    /\ sceneData.nodes[1].type = "tree_complex"
    /\ sceneData.nodes[1].scale = << 1, 1, 1 >>
    /\ sceneData.nodes[1].rotation = << 0, 0, 0 >>
    /\ sceneData.nodes[1].position = << -1, 2, 3 >>

\* the documents expected of an export of the scene with a target:
\* the document of every group of the scene, or of the target group alone
ExpectedFiles(targetGroup) ==
    [ g \in IF Truthy(targetGroup) THEN SceneGroups \cap { targetGroup } ELSE SceneGroups
        |-> ExpectedDocument(g) ]

Last(s) == s[Len(s)]

\* the step is an invocation of handleExport that the state shows
ExportInvoked == exportRun'.called /\ ( Len(zips') > Len(zips) \/ exportRun' # exportRun )

\* C12: handleExport invoked again with the target group of the invocation
\* before it, from a render whose scene has the nodes that invocation saw,
\* writes the group names and, for each group, the document that invocation
\* wrote, whatever happened in between (messages sent, requests in flight or
\* answered, archives encoded or downloaded at other times). What is compared
\* is what the two invocations left behind: the locals recorded by the one
\* before, the locals and the archive handed to the encoder by this one. The
\* documents handed to the encoder depend on the scene and the target alone:
\* they are the documents built from the scene's nodes of the target's
\* groups, line by line, without handleExport. The time enters a download
\* only in the name of the full archive: the download holds the documents
\* handed to the encoder, under the name <group>.zip or
\* Full_Project_<time>.zip.
ExportDeterministic ==
    /\ [][ ( /\ exportRun.called
             /\ ExportInvoked
             /\ exportRun'.targetGroup = exportRun.targetGroup
             /\ exportRun'.nodes = exportRun.nodes )
           => /\ exportRun'.keys = exportRun.keys
              /\ DOMAIN exportRun'.files = DOMAIN exportRun.files
              /\ \A g \in DOMAIN exportRun.files : exportRun'.files[g] = exportRun.files[g]
              /\ Len(zips') > Len(zips) => Last(zips').files = exportRun.files ]_vars
    /\ [][ Len(zips') > Len(zips)
           => Last(zips').files = ExpectedFiles(Last(zips').targetGroup) ]_vars
    /\ [][ download' # download
           => \E i \in DOMAIN zips :
                 /\ download'.files = zips[i].files
                 /\ IF Truthy(zips[i].targetGroup)
                    THEN download'.name = << zips[i].targetGroup, ".zip" >>
                    ELSE \E now \in Times :
                            download'.name = << "Full_Project_", now, ".zip" >> ]_vars

\* C12 witness: the full project of a generated scene with two groups was
\* downloaded at time 1; since then a message was sent, its request is in
\* flight, and a second full export of the same scene has handed the same
\* documents to the encoder.
FullExportRepeated ==
    /\ generation = "returned data"
    /\ isProcessing
    /\ download # NoDownload /\ download.name = << "Full_Project_", 1, ".zip" >>
    /\ Cardinality(DOMAIN download.files) = 2
    /\ exportRun.called /\ ~Truthy(exportRun.targetGroup)
    /\ exportRun.nodes = sceneData.nodes
    /\ Len(zips) = 1 /\ ~Truthy(zips[1].targetGroup)
    /\ zips[1].files = exportRun.files
    /\ download.files = exportRun.files

\* C13: a step of an export (the call of handleExport with any target, the
\* rest of it once the archive is encoded, or any step that changes what an
\* export has produced) leaves sceneData, history and isProcessing as they
\* were.
ExportLeavesSceneUnchanged ==
    [][ ( \/ \E targetGroup \in { Undefined } \cup SceneGroups : handleExport(targetGroup)
          \/ zipGenerated
          \/ exportRun' # exportRun
          \/ zips' # zips
          \/ download' # download )
        => /\ sceneData' = sceneData
           /\ history' = history
           /\ isProcessing' = isProcessing ]_vars

\* C13 witness: one group of a generated two-node scene was exported while a
\* request was in flight, after an archive had been downloaded.
FilteredExportWhileBusy ==
    /\ exportRun.called /\ ~exportRun.returned
    /\ Truthy(exportRun.targetGroup)
    /\ Len(exportRun.nodesToExport) = 1
    /\ Len(sceneData.nodes) = 2
    /\ isProcessing
    /\ Len(zips) = 1 /\ zips[1].targetGroup = exportRun.targetGroup
    /\ download # NoDownload

\* C14: the documents of an export are those of the scene as it is when the
\* export is triggered, also while a request is in flight; a response that
\* replaces the scene leaves the archives being encoded and the download as
\* they are; and the archive that is downloaded holds the documents that were
\* handed to the encoder.
ExportPackagesSnapshot ==
    /\ [][ Len(zips') > Len(zips)
              => /\ zips'[Len(zips')].files = ExpectedFiles(zips'[Len(zips')].targetGroup)
                 /\ SubSeq(zips', 1, Len(zips)) = zips ]_vars
    /\ [][ sceneData' # sceneData => ( zips' = zips /\ download' = download ) ]_vars
    /\ [][ Len(zips') < Len(zips)
              => \E i \in DOMAIN zips :
                    /\ zips' = RemoveAt(zips, i)
                    /\ download'.files = zips[i].files ]_vars

\* C14 witness: an export of a generated scene was triggered while a request
\* was in flight, and the response has replaced the scene by another one with
\* nodes while the archive is still being encoded.
ArchivePendingOverReplacement ==
    /\ generation = "returned data"
    /\ ~isProcessing
    /\ Len(UserMessages) = 2
    /\ Len(zips) = 1
    /\ zips[1].files = exportRun.files
    /\ Len(exportRun.nodesToExport) > 0
    /\ Len(sceneData.nodes) > 0
    /\ zips[1].files # ExportRun(sceneData.nodes, zips[1].targetGroup).files

\* the lines of a document that begin with tag
LinesTagged(document, tag) ==
    SelectSeq(document, LAMBDA line : Len(line) > 0 /\ line[1] = tag)

\* a color with a leading "#" replaced by "Mat_", any other color as it is
LeadingHashReplaced(color) ==
    IF Len(color) > 0 /\ color[1] = "#" THEN << "Mat_" >> \o Tail(color) ELSE color

\* C15 (as claimed): the usemtl line of every exported node carries the
\* node's color with a leading "#" replaced by "Mat_"; a "#" elsewhere in
\* the color stays, and a color without a leading "#" is emitted unchanged.
MaterialLeadingHashOnly ==
    exportRun.called =>
       \A g \in DOMAIN exportRun.files :
          LinesTagged(exportRun.files[g], "usemtl")
             = [ k \in DOMAIN exportRun.groupedNodes[g] |->
                   << "usemtl",
                      LeadingHashReplaced(exportRun.groupedNodes[g][k].material.color) >> ]

\* the group the claim assigns to a node: "Ungrouped" for an empty or absent
\* group
ClaimedGroup(node) ==
    IF node.group = "" \/ node.group = Undefined THEN "Ungrouped" ELSE node.group

\* the positions in the scene of the nodes an export with this target covers
\* that the claim assigns to group g, in scene order
ClaimedMembers(targetGroup, g) ==
    SelectSeq([ i \in DOMAIN sceneData.nodes |-> i ],
              LAMBDA i : /\ ClaimedGroup(sceneData.nodes[i]) = g
                         /\ ( targetGroup \in { "", Undefined } \/ g = targetGroup ))

\* C16: an export produces one document for every normalized group among the
\* exported nodes and no other, no document has an empty group name, the
\* object lines of a group's document are those of the group's nodes in scene
\* order, the k-th (from 0) being "o <name>_<k>", and every exported node has
\* its object line in exactly one document.
ExportPartitionsByGroup ==
    ( exportRun.called /\ ~exportRun.returned ) =>
       LET target == exportRun.targetGroup
           groups == { g \in { ClaimedGroup(sceneData.nodes[i]) : i \in DOMAIN sceneData.nodes } :
                         Len(ClaimedMembers(target, g)) > 0 }
           objects(g) == LinesTagged(exportRun.files[g], "o")
       IN /\ DOMAIN exportRun.files = groups
          /\ "" \notin DOMAIN exportRun.files
          /\ Undefined \notin DOMAIN exportRun.files
          /\ \A g \in DOMAIN exportRun.files :
                /\ exportRun.files[g][1] = << "#", "Group:", g >>
                /\ objects(g)
                      = [ k \in DOMAIN ClaimedMembers(target, g) |->
                            << "o", sceneData.nodes[ClaimedMembers(target, g)[k]].name, k - 1 >> ]
          /\ \A i \in DOMAIN sceneData.nodes :
                Cardinality({ g \in DOMAIN exportRun.files :
                                \E k \in DOMAIN ClaimedMembers(target, g) :
                                   ClaimedMembers(target, g)[k] = i })
                   = IF Len(ClaimedMembers(target, ClaimedGroup(sceneData.nodes[i]))) > 0
                     THEN 1 ELSE 0

\* C16 witness: a full export of a scene whose group "A" holds the first and
\* the third node, with a node without a group between them that has the name
\* of the first.
InterleavedGroupsExported ==
    /\ exportRun.called /\ ~exportRun.returned
    /\ ~Truthy(exportRun.targetGroup)
    /\ Len(sceneData.nodes) = 3
    /\ ClaimedMembers(Undefined, "A") = << 1, 3 >>
    /\ ClaimedMembers(Undefined, "Ungrouped") = << 2 >>
    /\ sceneData.nodes[1].name = sceneData.nodes[2].name
    /\ sceneData.nodes[3].name # sceneData.nodes[1].name
    /\ download # NoDownload

\* the line numbers of the object lines of a document, and the lines of its
\* k-th node: from its object line to the line before the next object line
ObjectLines(document) ==
    SelectSeq([ i \in DOMAIN document |-> i ],
              LAMBDA i : Len(document[i]) > 0 /\ document[i][1] = "o")

BlockOf(document, k) ==
    LET starts == ObjectLines(document)
    IN SubSeq(document, starts[k],
              IF k < Len(starts) THEN starts[k + 1] - 1 ELSE Len(document))

\* the number of vertex lines of a document before its k-th node
VerticesBefore(document, k) ==
    Len(LinesTagged(SubSeq(document, 1, ObjectLines(document)[k] - 1), "v"))

\* C18: in every document, with o the counter when a node is started and c
\* the number of its vertex lines (4 or 8), every face line of the node lists
\* 4 distinct indices within o..o+c-1, none greater than the number of vertex
\* lines emitted so far; the face of a quad is (o, o+1, o+3, o+2), and a cube
\* has 6 faces, each of its 8 vertices being used by exactly 3 of them.
FacesWithinOwnVertices ==
    exportRun.called =>
       \A g \in DOMAIN exportRun.files :
          \A document \in { exportRun.files[g] } :
             /\ Len(ObjectLines(document)) = Len(exportRun.groupedNodes[g])
             /\ \A k \in DOMAIN ObjectLines(document) :
                   LET block == BlockOf(document, k)
                       c     == Len(LinesTagged(block, "v"))
                       faces == LinesTagged(block, "f")
                       o     == exportRun.counters[g][k]
                   IN /\ o = 1 + VerticesBefore(document, k)
                      /\ c \in { 4, 8 }
                      /\ \A n \in DOMAIN faces :
                            /\ Len(faces[n]) = 5
                            /\ \A a \in 2..5 :
                                  /\ faces[n][a] \in o..(o + c - 1)
                                  /\ faces[n][a] <= VerticesBefore(document, k) + c
                                  /\ \A b \in 2..5 : a # b => faces[n][a] # faces[n][b]
                      /\ c = 4 => faces = << << "f", o, o + 1, o + 3, o + 2 >> >>
                      /\ c = 8 =>
                            /\ Len(faces) = 6
                            /\ \A vertex \in o..(o + 7) :
                                  Cardinality({ n \in DOMAIN faces :
                                                  \E a \in 2..5 : faces[n][a] = vertex }) = 3

\* C18 witness: a document of three nodes, a quad between two cubes, has been
\* exported and downloaded.
QuadBetweenCubesExported ==
    /\ exportRun.called /\ ~exportRun.returned
    /\ download # NoDownload
    /\ \E g \in DOMAIN exportRun.files :
          /\ exportRun.counters[g] = << 1, 9, 13, 21 >>
          /\ Len(LinesTagged(exportRun.files[g], "f")) = 13
          /\ download.files = exportRun.files

\* a request has just finished
RequestFinished == Len(requests') < Len(requests)

FailureMessage ==
    [ id |-> DateNowId, role |-> "ai", text |-> FailureText, attachment |-> Undefined ]

\* the places of a character in a text, the first "{" and the last "}"
Positions(text, ch) == { i \in DOMAIN text : text[i].ch = ch }
FirstOpen(text) == CHOOSE i \in Positions(text, "{") : \A j \in Positions(text, "{") : i <= j
LastClose(text) == CHOOSE i \in Positions(text, "}") : \A j \in Positions(text, "}") : i >= j

\* the text has a "{" and, after it, a "}"
BracesInOrder(text) ==
    /\ Positions(text, "{") # { }
    /\ Positions(text, "}") # { }
    /\ FirstOpen(text) < LastClose(text)

\* from the first "{" to the last "}", both included
Enclosed(text) == SubSeq(text, FirstOpen(text), LastClose(text))

\* the enclosed part is the text of an object with a nodes array
EnclosedIsScene(text) ==
    /\ JsonParse(Enclosed(text)).ok
    /\ HasNodesArray(JsonParse(Enclosed(text)).value)

\* the step ends a request by storing the scene that the enclosed part of the
\* response text describes
Accepted ==
    /\ generation'.exit = "returned data"
    /\ ~isProcessing'
    /\ BracesInOrder(generation'.jsonText)
    /\ EnclosedIsScene(generation'.jsonText)
    /\ \A data \in { JsonParse(Enclosed(generation'.jsonText)).value } :
          /\ Len(sceneData'.nodes) = Len(data.nodes.jsArray)
          /\ \A k \in DOMAIN sceneData'.nodes :
                sceneData'.nodes[k]
                   = [ id |-> sceneData'.nodes[k].id ] @@ Spread(data.nodes.jsArray[k])
          /\ sceneData'.environment = data.environment

\* the step ends a request with the failure result
Recovered ==
    /\ generation'.exit \in { "Empty response", "SyntaxError", "TypeError" }
    /\ ~isProcessing'
    /\ sceneData' = sceneData
    /\ Last(history') = FailureMessage

\* the valid payloads: the texts of objects with a nodes array
ValidPayloads == { JsonText(payload) : payload \in IngestPayloads \cap ArrayPayloads }

\* the ways to read the text as lead, a valid payload, trail
Splits(text) ==
    UNION { { << SubSeq(text, 1, k - 1), SubSeq(text, k + Len(valid), Len(text)) >> :
                k \in { j \in 1..(Len(text) - Len(valid) + 1) :
                          SubSeq(text, j, j + Len(valid) - 1) = valid } } :
            valid \in ValidPayloads }

\* what is parsed is the part from the first "{" to the last "}", and a text
\* without braces in that order ends in the failure result
ParsesEnclosedPart ==
    LET text == generation'.jsonText
    IN /\ BracesInOrder(text)
            => /\ Accepted <=> EnclosedIsScene(text)
               /\ Accepted \/ Recovered
               /\ ~JsonParse(Enclosed(text)).ok <=> generation'.exit = "SyntaxError"
       /\ ~BracesInOrder(text) => Recovered

\* C17 (as claimed): ingestion parses the part of the response text from its
\* first "{" to its last "}", a text without braces in that order ends in the
\* failure result, and a valid payload is accepted whatever text stands
\* before and after it.
AnyWrappingAccepted ==
    [][ RequestFinished =>
          /\ ParsesEnclosedPart
          /\ \A split \in Splits(generation'.jsonText) : Accepted ]_vars

\* C17 (amended): the same, the valid payload being accepted when the text
\* before it has no "{" and the text after it has no "}".
BraceFreeWrappingAccepted ==
    [][ RequestFinished =>
          /\ ParsesEnclosedPart
          /\ \A split \in Splits(generation'.jsonText) :
                ( /\ Positions(split[1], "{") = { }
                  /\ Positions(split[2], "}") = { } )
                => Accepted ]_vars

\* C17 witness: the payload of one node arrived with a "}" and other text
\* before it and a "{" after it, and its scene is stored.
WrappedPayloadStored ==
    /\ \E valid \in ValidPayloads :
          /\ Len(valid) > 4
          /\ generation.jsonText = << Piece("}"), Piece("x") >> \o valid \o << Piece("{") >>
    /\ generation.exit = "returned data"
    /\ Len(sceneData.nodes) = 1
    /\ ~isProcessing

\* C19 (as claimed): whenever no request is in flight the history holds no
\* message with id 'analyzing', on whichever way the requests have finished,
\* the catch block of handleSendMessage included, and every finished request
\* has added exactly one ai message.
NoPlaceholderWhenIdle ==
    ~isProcessing =>
       /\ \A n \in DOMAIN history : history[n].id # "analyzing"
       /\ Len(SelectSeq(history, LAMBDA m : m.role = "ai")) = 1 + Len(UserMessages)

\* the responses that are absent or empty, do not parse, or parse to a value
\* without a nodes array
IngestionFailures ==
    { jsonText \in Texts \cup { JsonText(payload) : payload \in OtherPayloads } :
         \/ Len(jsonText) = 0
         \/ ~JsonParse(CleanJson(jsonText)).ok
         \/ ~HasNodesArray(JsonParse(CleanJson(jsonText)).value) }

\* C4: a response that is absent, empty, not parseable or without a nodes
\* array makes generateSceneFromPrompt return a text and no data, and the
\* request then ends with the scene as it was and the failure message appended.
IngestionFailureKeepsScene ==
    /\ [] ( \A jsonText \in IngestionFailures :
              LET result == generateSceneFromPrompt(FALSE, jsonText, << >>)
              IN /\ ~result.hasData
                 /\ result.text = FailureText
                 /\ result.exit \in { "Empty response", "SyntaxError", "TypeError" } )
    /\ [][ ( RequestFinished
             /\ generation' \in { "Empty response", "SyntaxError", "TypeError" } )
              => /\ sceneData' = sceneData
                 /\ Last(history') = FailureMessage
                 /\ SubSeq(history', 1, Len(history') - 1)
                       = SelectSeq(history, LAMBDA m : m.id # "analyzing") ]_vars

\* C4 witness: a response without a nodes array arrived for a request with an
\* attachment while a generated scene was displayed; the scene is still there.
FailureAfterScene ==
    /\ generation = "TypeError"
    /\ ~isProcessing
    /\ Len(sceneData.nodes) = 2
    /\ Last(history) = FailureMessage
    /\ Truthy(history[Len(history) - 1].attachment)

\* C5: at most one generation request is in flight, and while isProcessing is
\* true no step starts a request or records a submission.
AtMostOneInFlight ==
    /\ [] ( Len(requests) <= 1 )
    /\ [][ isProcessing =>
              /\ Len(requests') <= Len(requests)
              /\ Len(SelectSeq(history', LAMBDA m : m.role = "user")) = Len(UserMessages)
         ]_vars

\* C5 witness: a request is in flight and the user can still submit.
BusyWhileSubmitting ==
    /\ isProcessing
    /\ Len(requests) = 1
    /\ requests[1].pc = "generateSceneFromPrompt"
    /\ Len(UserMessages) < MaxRequests
    /\ ENABLED handleKeyDown

\* C6: isProcessing is true exactly while a request is in flight, and every
\* request that was started ends, with isProcessing false again.
BusyFlagCleared ==
    /\ [] ( isProcessing <=> Len(requests) > 0 )
    /\ ( Len(requests) > 0 ) ~> ( Len(requests) = 0 /\ ~isProcessing )

\* C6 witness: requests have ended on the failure path and on the success
\* path, and the flag is down.
FlagDownAfterFailure ==
    /\ ~isProcessing
    /\ Len(UserMessages) = 2
    /\ generation = "SyntaxError"
    /\ Len(sceneData.nodes) > 0

\* C7 (as claimed): the node ids of the stored scene are pairwise distinct.
NodeIdsDistinct ==
    \A i, j \in DOMAIN sceneData.nodes :
        i # j => sceneData.nodes[i].id # sceneData.nodes[j].id

\* the JSON literals that are numbers
NumberLiterals == { "0.5" }

WellShaped(data) ==
    /\ data.environment \in Environments
    /\ data.ambientLightIntensity \in NumberLiterals
    /\ \A i \in DOMAIN data.nodes :
          /\ Len(data.nodes[i].position) = 3
          /\ Len(data.nodes[i].rotation) = 3
          /\ Len(data.nodes[i].scale) = 3

\* C8 (as claimed): every stored SceneData has the expected shape, a response
\* that violates it having been rejected.
StoredSceneWellShaped == WellShaped(sceneData)
====
